---- MODULE Spec2Model ----
(***************************************************************************)
(* Model of src/handlers/pricing-label.ts: the handler that keeps the     *)
(* "Price: ..." label of an issue in line with its time and priority       *)
(* labels.  The label store (issue labels, repository labels, issue events) *)
(* is the state, with the invocations of onLabelChangeSetPricing under way. *)
(* An invocation is an async function: a step of it is one awaited call on *)
(* the store together with the code that runs until the next await.        *)
(***************************************************************************)
EXTENDS Integers, Sequences, FiniteSets, TLC

VARIABLES
    issueLabels,   \* payload.issue.labels / the labels on the issue, in order
    repoLabels,    \* the names listLabelsForRepo returns
    issueEvents,   \* the issue's event log, oldest first (issues.listEvents)
    payload,       \* the context of the last invocation (NoPayload before any)
    before,        \* the store (labels, repo, events) when the last invocation started
    calls,         \* the mutation calls the last invocation issued, in order
    result,        \* how the last invocation ended
    runs,          \* number of invocations that have ended
    pending,       \* the label-change events not yet delivered: their labels, oldest first
    inv            \* the invocations under way: context, payload labels, answers so far

vars == <<issueLabels, repoLabels, issueEvents, payload, before, calls, result, runs,
          pending, inv>>

(***************************************************************************)
(* Strings.  A name is a TLA+ string; Text gives its characters, so that   *)
(* String.prototype.includes and the parsing of the magnitude are computed *)
(* on the characters.                                                      *)
(***************************************************************************)
Text ==
    ( "Time: 1 Hour"         :> <<"T","i","m","e",":"," ","1"," ","H","o","u","r">> ) @@
    ( "Time: 5 Hours"        :> <<"T","i","m","e",":"," ","5"," ","H","o","u","r","s">> ) @@
    ( "Priority: 1 (Normal)" :> <<"P","r","i","o","r","i","t","y",":"," ","1"," ","(","N","o","r","m","a","l",")">> ) @@
    ( "Priority: TBD"        :> <<"P","r","i","o","r","i","t","y",":"," ","T","B","D">> ) @@
    ( "Price: 1 USD"         :> <<"P","r","i","c","e",":"," ","1"," ","U","S","D">> ) @@
    ( "Price: 5 USD"         :> <<"P","r","i","c","e",":"," ","5"," ","U","S","D">> ) @@
    ( "Price: 1 USDC"        :> <<"P","r","i","c","e",":"," ","1"," ","U","S","D","C">> ) @@
    ( "Price: "              :> <<"P","r","i","c","e",":"," ">> ) @@
    ( "Price"                :> <<"P","r","i","c","e">> )

\* The label names of the model's universe.
TimeLabels == {"Time: 1 Hour", "Time: 5 Hours"}
PriorityLabels == {"Priority: 1 (Normal)", "Priority: TBD"}
PriceLabels == {"Price: 1 USD", "Price: 5 USD", "Price: 1 USDC"}
Labels == TimeLabels \cup PriorityLabels \cup PriceLabels

\* s.includes(t)
Includes(s, t) ==
    LET a == Text[s]
        b == Text[t]
    IN  \E i \in 0..(Len(a) - Len(b)) : SubSeq(a, i + 1, i + Len(b)) = b

\* JS null / undefined where a name is expected.
Null == "null"

(***************************************************************************)
(* Configuration (context.config) and the collaborators of                 *)
(* shared/pricing and handle-parent-issue that the handler calls.          *)
(***************************************************************************)
\* config.labels.time and config.labels.priority
ConfigTime == TimeLabels
ConfigPriority == PriorityLabels

DigitValue ==
    ("0" :> 0) @@ ("1" :> 1) @@ ("2" :> 2) @@ ("3" :> 3) @@ ("4" :> 4) @@
    ("5" :> 5) @@ ("6" :> 6) @@ ("7" :> 7) @@ ("8" :> 8) @@ ("9" :> 9)

IsDigit(c) == c \in DOMAIN DigitValue

RECURSIVE DigitsValue(_, _, _)
\* The number written by the digits of t from position i on, acc so far.
DigitsValue(t, i, acc) ==
    IF i > Len(t) \/ ~IsDigit(t[i]) THEN acc
    ELSE DigitsValue(t, i + 1, acc * 10 + DigitValue[t[i]])

\* Whether the name carries a magnitude (a number) at all.
HasMagnitude(name) == \E i \in 1..Len(Text[name]) : IsDigit(Text[name][i])

\* The magnitude embedded in a label name: its first number; 0 when it has none.
calculateLabelValue(name) ==
    LET t == Text[name]
        digits == {i \in 1..Len(t) : IsDigit(t[i])}
    IN  IF digits = {} THEN 0
        ELSE DigitsValue(t, CHOOSE i \in digits : \A j \in digits : i <= j, 0)

RECURSIVE InsertByValue(_, _)
\* x put into the sorted sequence s behind every element that is not larger.
InsertByValue(x, s) ==
    IF s = <<>> THEN <<x>>
    ELSE IF calculateLabelValue(x) < calculateLabelValue(Head(s)) THEN <<x>> \o s
    ELSE <<Head(s)>> \o InsertByValue(x, Tail(s))

\* sortLabelsByValue leaving the labels in the order given.
sortLabelsByValue_Unsorted(labels) == labels

RECURSIVE sortLabelsByValue(_)
\* Stable ascending sort by magnitude: equal magnitudes keep their order.
sortLabelsByValue(labels) ==
    IF labels = <<>> THEN <<>>
    ELSE InsertByValue(labels[Len(labels)],
                       sortLabelsByValue(SubSeq(labels, 1, Len(labels) - 1)))

RECURSIVE Decimal(_)
\* The decimal digits of a natural number.
Decimal(n) ==
    LET d == CHOOSE c \in DOMAIN DigitValue : DigitValue[c] = n % 10
    IN  IF n < 10 THEN <<d>> ELSE Decimal(n \div 10) \o <<d>>

\* The name "Price: <value> USD".
PriceName(value) ==
    CHOOSE n \in DOMAIN Text :
        Text[n] = Text["Price: "] \o Decimal(value) \o <<" ", "U", "S", "D">>

\* setPrice: time magnitude x priority magnitude, rendered as a price label
\* name; no value when either label has no magnitude.
setPrice(timeLabel, priorityLabel) ==
    IF HasMagnitude(timeLabel) /\ HasMagnitude(priorityLabel)
    THEN PriceName(calculateLabelValue(timeLabel) * calculateLabelValue(priorityLabel))
    ELSE Null

(***************************************************************************)
(* Sequence helpers.                                                       *)
(***************************************************************************)
RECURSIVE SelectSeqBy(_, _)
\* Array.prototype.filter with the set keep as the test.
SelectSeqBy(s, keep) ==
    IF s = <<>> THEN <<>>
    ELSE IF Head(s) \in keep THEN <<Head(s)>> \o SelectSeqBy(Tail(s), keep)
    ELSE SelectSeqBy(Tail(s), keep)

Range(s) == {s[i] : i \in 1..Len(s)}

\* label.name.includes("Price: ")
IsPriceLabel(name) == Includes(name, "Price: ")

(***************************************************************************)
(* The label store.  A world w is the store as one invocation sees and     *)
(* changes it: the issue's labels, the repository's labels, the issue's    *)
(* events, plus the calls issued, the messages logged and the error thrown *)
(* (Null while none is).                                                   *)
(*                                                                         *)
(* The invocation awaits every call on the store.  The world keeps the     *)
(* answers of the awaited calls made so far (answers) and counts the       *)
(* awaited calls met in this run of the handler (met).  A world is either  *)
(* whole, and then every call is made on the store in turn, or it lets the *)
(* run go up to a number of awaited calls (upto): the calls that have an   *)
(* answer take it from the record without touching the store again, the    *)
(* next one is made on the store as it is now, and at the one after it the *)
(* run is blocked, waiting; what a blocked run does has no effect.         *)
(***************************************************************************)
\* The actor type of events the automation causes.
BotActor == "Bot"

Event(kind, name, actor) == [event |-> kind, label |-> name, actor |-> actor]

Call(op, name) == [op |-> op, name |-> name]

Log(w, message) == IF w.blocked THEN w ELSE [w EXCEPT !.log = Append(@, message)]

Throw(w, message) ==
    IF w.blocked THEN w ELSE [w EXCEPT !.log = Append(@, message), !.error = message]

\* The answer of an awaited call: whether it failed, and what it read.
Answer(failed, events, repo) == [failed |-> failed, events |-> events, repo |-> repo]

\* Where the run stands at an awaited call: "answered" when the call was made
\* in an earlier step, "live" when it is made now, "blocked" when the run has
\* to wait.
Await(w) ==
    IF w.blocked THEN "blocked"
    ELSE IF w.met < Len(w.answers) THEN "answered"
    ELSE IF w.whole \/ w.met < w.upto THEN "live"
    ELSE "blocked"

\* The answer the call made in an earlier step got.
Earlier(w) == w.answers[w.met + 1]

\* The run waits at an awaited call.
Blocked(w) == [w EXCEPT !.blocked = TRUE]

\* The awaited call has answered: it is counted, and its answer is kept when
\* the call was made now.
Answered(w, answer) ==
    [w EXCEPT !.met = @ + 1,
              !.answers = IF Await(w) = "live" THEN Append(@, answer) ELSE @]

\* octokit.issues.removeLabel({ name }): the label leaves the issue and an
\* "unlabeled" event is logged; a failing call throws.
removeLabel(ctx, w, name) ==
    LET failed == IF Await(w) = "live"
                  THEN <<"removeLabel", name>> \in ctx.failing \/ name \notin Range(w.labels)
                  ELSE Earlier(w).failed
        issued == [Answered(w, Answer(failed, <<>>, {})) EXCEPT
                      !.calls = Append(@, Call("removeLabel", name))]
    IN  IF Await(w) = "blocked" THEN Blocked(w)
        ELSE IF failed THEN [issued EXCEPT !.error = "removeLabel failed"]
        ELSE IF Await(w) = "live"
        THEN [issued EXCEPT
                 !.labels = SelectSeqBy(@, Range(@) \ {name}),
                 !.events = Append(@, Event("unlabeled", name, BotActor))]
        ELSE issued

RECURSIVE UnlabelAll(_, _)
\* The "unlabeled" events of removing the labels of s, in order.
UnlabelAll(events, s) ==
    IF s = <<>> THEN events
    ELSE UnlabelAll(Append(events, Event("unlabeled", Head(s), BotActor)), Tail(s))

\* clearAllPriceLabelsOnIssue: every price label on the issue is removed.
clearAllPriceLabelsOnIssue(ctx, w) ==
    LET prices == SelectSeqBy(w.labels, {n \in Range(w.labels) : IsPriceLabel(n)})
        issued == [Answered(w, Answer(FALSE, <<>>, {})) EXCEPT
                      !.calls = Append(@, Call("clearAllPriceLabelsOnIssue", Null))]
    IN  IF Await(w) = "blocked" THEN Blocked(w)
        ELSE IF Await(w) = "live"
        THEN [issued EXCEPT
                 !.labels = SelectSeqBy(@, Range(@) \ Range(prices)),
                 !.events = UnlabelAll(@, prices)]
        ELSE issued

\* addLabelToIssue: the label is put on the issue (last), known to the
\* repository from then on, and a "labeled" event by the automation is logged.
addLabelToIssue(ctx, w, name) ==
    LET issued == [Answered(w, Answer(FALSE, <<>>, {})) EXCEPT
                      !.calls = Append(@, Call("addLabelToIssue", name))]
    IN  IF Await(w) = "blocked" THEN Blocked(w)
        ELSE IF Await(w) = "live" /\ name \notin Range(w.labels)
        THEN [issued EXCEPT
                 !.labels = Append(@, name),
                 !.repo = @ \cup {name},
                 !.events = Append(@, Event("labeled", name, BotActor))]
        ELSE issued

\* createLabel(name, "price"): the repository gets the label; a failing call throws.
createLabel(ctx, w, name) ==
    LET failed == IF Await(w) = "live"
                  THEN <<"createLabel", name>> \in ctx.failing
                  ELSE Earlier(w).failed
        issued == [Answered(w, Answer(failed, <<>>, {})) EXCEPT
                      !.calls = Append(@, Call("createLabel", name))]
    IN  IF Await(w) = "blocked" THEN Blocked(w)
        ELSE IF failed THEN Throw(issued, "Creating a label failed!")
        ELSE IF Await(w) = "live" THEN [issued EXCEPT !.repo = @ \cup {name}]
        ELSE issued

\* What an awaited read gives: none when it returns undefined (or null), else
\* what it returns; w is the world after it, with what it logged.
Fetched(none, returns, w) == [none |-> none, returns |-> returns, w |-> w]

\* listLabelsForRepo: the names of the repository's labels.
listLabelsForRepo(ctx, w) ==
    LET names == IF Await(w) = "live" THEN w.repo ELSE Earlier(w).repo
    IN  IF Await(w) = "blocked" THEN Fetched(FALSE, {}, Blocked(w))
        ELSE Fetched(FALSE, names, Answered(w, Answer(FALSE, <<>>, names)))

\* handleParentIssue: the pricing of a parent issue is delegated.
handleParentIssue(ctx, w) ==
    IF Await(w) = "blocked" THEN Blocked(w)
    ELSE [Answered(w, Answer(FALSE, <<>>, {})) EXCEPT
             !.calls = Append(@, Call("handleParentIssue", Null))]

\* labelAccessPermissionsCheck: whether the actor may set labels.
labelAccessPermissionsCheck(ctx, w) ==
    IF Await(w) = "blocked" THEN Fetched(FALSE, FALSE, Blocked(w))
    ELSE Fetched(FALSE, ctx.hasPermission, Answered(w, Answer(FALSE, <<>>, {})))

(***************************************************************************)
(* src/handlers/pricing-label.ts                                           *)
(***************************************************************************)
\* "issue" in context.payload && context.payload.issue
PayloadHasIssue(ctx) == ctx.hasIssue

\* getAllIssueEvents that gives the events whether the fetch fails or not.
getAllIssueEvents_NoCatch(ctx, w) ==
    LET events == IF Await(w) = "live" THEN w.events ELSE Earlier(w).events
    IN  IF ~PayloadHasIssue(ctx) THEN Fetched(TRUE, <<>>, Log(w, "Not an issue event"))
        ELSE IF Await(w) = "blocked" THEN Fetched(FALSE, <<>>, Blocked(w))
        ELSE Fetched(FALSE, events, Answered(w, Answer(FALSE, events, {})))

\* getAllIssueEvents: the issue's events; a failing fetch is logged (fatal)
\* and gives the empty list; a payload without issue is logged (debug) and
\* gives undefined.
getAllIssueEvents(ctx, w) ==
    LET failed == IF Await(w) = "live"
                  THEN <<"listEvents", Null>> \in ctx.failing
                  ELSE Earlier(w).failed
        events == IF failed THEN <<>>
                  ELSE IF Await(w) = "live" THEN w.events ELSE Earlier(w).events
        fetched == Answered(w, Answer(failed, events, {}))
    IN  IF ~PayloadHasIssue(ctx) THEN Fetched(TRUE, <<>>, Log(w, "Not an issue event"))
        ELSE IF Await(w) = "blocked" THEN Fetched(FALSE, <<>>, Blocked(w))
        ELSE IF failed
        THEN Fetched(FALSE, <<>>, Log(fetched, "Failed to fetch lists of events"))
        ELSE Fetched(FALSE, events, fetched)

\* getAllLabeledEvents keeping every event.
getAllLabeledEvents_Unfiltered(ctx, w) == getAllIssueEvents(ctx, w)

\* getAllLabeledEvents: null when there are no events to filter, else the
\* events with event === "labeled".
getAllLabeledEvents(ctx, w) ==
    LET events == getAllIssueEvents(ctx, w)
    IN  IF events.none THEN events
        ELSE [events EXCEPT
                 !.returns = SelectSeqBy(@, {e \in Range(@) : e.event = "labeled"})]

\* addPriceLabelToIssue adding before it clears.
addPriceLabelToIssue_AddFirst(ctx, w, targetPriceLabel) ==
    clearAllPriceLabelsOnIssue(ctx, addLabelToIssue(ctx, w, targetPriceLabel))

\* addPriceLabelToIssue: clear, then add.
addPriceLabelToIssue(ctx, w, targetPriceLabel) ==
    addLabelToIssue(ctx, clearAllPriceLabelsOnIssue(ctx, w), targetPriceLabel)

\* handleExistingPriceLabel reading the oldest price labeled event.
handleExistingPriceLabel_Oldest(ctx, w, targetPriceLabel) ==
    LET all == getAllLabeledEvents(ctx, w)
        labeledEvents ==
            SelectSeqBy(all.returns, {e \in Range(all.returns) :
                                         e.label # Null /\ Includes(e.label, "Price")})
    IN  IF all.none THEN Log(all.w, "No labeled events found")
        ELSE IF labeledEvents = <<>> THEN Log(all.w, "No price labeled events found")
        ELSE IF labeledEvents[1].actor = "User"
             THEN Log(all.w, "Skipping... already exists")
             ELSE addPriceLabelToIssue(ctx, all.w, targetPriceLabel)

\* handleExistingPriceLabel with the test of the actor type inverted.
handleExistingPriceLabel_Inverted(ctx, w, targetPriceLabel) ==
    LET all == getAllLabeledEvents(ctx, w)
        labeledEvents ==
            SelectSeqBy(all.returns, {e \in Range(all.returns) :
                                         e.label # Null /\ Includes(e.label, "Price")})
    IN  IF all.none THEN Log(all.w, "No labeled events found")
        ELSE IF labeledEvents = <<>> THEN Log(all.w, "No price labeled events found")
        ELSE IF labeledEvents[Len(labeledEvents)].actor # "User"
             THEN Log(all.w, "Skipping... already exists")
             ELSE addPriceLabelToIssue(ctx, all.w, targetPriceLabel)

\* handleExistingPriceLabel
handleExistingPriceLabel(ctx, w, targetPriceLabel) ==
    LET all == getAllLabeledEvents(ctx, w)
        labeledEvents ==
            SelectSeqBy(all.returns, {e \in Range(all.returns) :
                                         e.label # Null /\ Includes(e.label, "Price")})
    IN  IF all.none THEN Log(all.w, "No labeled events found")
        ELSE IF labeledEvents = <<>> THEN Log(all.w, "No price labeled events found")
        ELSE IF labeledEvents[Len(labeledEvents)].actor = "User"
             THEN Log(all.w, "Skipping... already exists")
             ELSE addPriceLabelToIssue(ctx, all.w, targetPriceLabel)

\* handleTargetPriceLabel going on to the add after a failed createLabel.
handleTargetPriceLabel_CreateCaught(ctx, w, targetPriceLabel, labelNames) ==
    IF \E i \in 1..Len(labelNames) :
           Includes(labelNames[i], "Price") /\ Includes(labelNames[i], targetPriceLabel)
    THEN handleExistingPriceLabel(ctx, w, targetPriceLabel)
    ELSE LET allLabels == listLabelsForRepo(ctx, w)
             created ==
                 IF {n \in allLabels.returns : Includes(n, targetPriceLabel)} = {}
                 THEN createLabel(ctx, allLabels.w, targetPriceLabel)
                 ELSE allLabels.w
         IN  addPriceLabelToIssue(ctx, created, targetPriceLabel)

\* handleTargetPriceLabel
handleTargetPriceLabel(ctx, w, targetPriceLabel, labelNames) ==
    IF \E i \in 1..Len(labelNames) :
           Includes(labelNames[i], "Price") /\ Includes(labelNames[i], targetPriceLabel)
    THEN handleExistingPriceLabel(ctx, w, targetPriceLabel)
    ELSE LET allLabels == listLabelsForRepo(ctx, w)
             created ==
                 IF {n \in allLabels.returns : Includes(n, targetPriceLabel)} = {}
                 THEN createLabel(ctx, allLabels.w, targetPriceLabel)
                 ELSE allLabels.w
         IN  IF created.error # Null THEN created
             ELSE addPriceLabelToIssue(ctx, created, targetPriceLabel)

\* getRecognizedLabels
getRecognizedLabels(labels) ==
    [time     |-> SelectSeqBy(labels, ConfigTime),
     priority |-> SelectSeqBy(labels, ConfigPriority)]

\* Array.prototype.shift on a copy: the first element, Null when there is none.
First(s) == IF s = <<>> THEN Null ELSE Head(s)

\* getMinLabels
getMinLabels(recognizedLabels) ==
    [time     |-> First(sortLabelsByValue(recognizedLabels.time)),
     priority |-> First(sortLabelsByValue(recognizedLabels.priority))]

\* setPriceLabel that leaves the price labels when setPrice gives no value.
setPriceLabel_NoClear(ctx, w, issueLabels_) ==
    LET recognizedLabels == getRecognizedLabels(issueLabels_)
        minLabels == getMinLabels(recognizedLabels)
        targetPriceLabel == setPrice(minLabels.time, minLabels.priority)
    IN  IF recognizedLabels.time = <<>> \/ recognizedLabels.priority = <<>>
        THEN clearAllPriceLabelsOnIssue(
                 ctx, Log(w, "No recognized labels to calculate price"))
        ELSE IF minLabels.time = Null \/ minLabels.priority = Null
        THEN Log(w, "No label to calculate price")
        ELSE IF targetPriceLabel # Null
        THEN handleTargetPriceLabel(ctx, w, targetPriceLabel, issueLabels_)
        ELSE Log(w, "Skipping action...")

\* setPriceLabel
setPriceLabel(ctx, w, issueLabels_) ==
    LET recognizedLabels == getRecognizedLabels(issueLabels_)
        minLabels == getMinLabels(recognizedLabels)
        targetPriceLabel == setPrice(minLabels.time, minLabels.priority)
    IN  IF recognizedLabels.time = <<>> \/ recognizedLabels.priority = <<>>
        THEN clearAllPriceLabelsOnIssue(
                 ctx, Log(w, "No recognized labels to calculate price"))
        ELSE IF minLabels.time = Null \/ minLabels.priority = Null
        THEN Log(w, "No label to calculate price")
        ELSE IF targetPriceLabel # Null
        THEN handleTargetPriceLabel(ctx, w, targetPriceLabel, issueLabels_)
        ELSE Log(clearAllPriceLabelsOnIssue(ctx, w), "Skipping action...")

\* The removal loop leaving after its first removal.
RemoveEach_OnlyFirst(ctx, w, names) ==
    IF names = <<>> \/ w.error # Null THEN w
    ELSE removeLabel(ctx, w, Head(names))

RECURSIVE RemoveEach(_, _, _)
\* for (const label of sortedPriceLabels) await removeLabel(label.name)
RemoveEach(ctx, w, names) ==
    IF names = <<>> \/ w.error # Null THEN w
    ELSE RemoveEach(ctx, removeLabel(ctx, w, Head(names)), Tail(names))

\* isPayloadToSetPrice taking no label for a price label.
isPayloadToSetPrice_Never(ctx) == FALSE

\* payload.label?.name.includes("Price: ")
isPayloadToSetPrice(ctx) ==
    IF ctx.label = Null THEN FALSE ELSE Includes(ctx.label, "Price: ")

\* onLabelChangeSetPricing deduplicating over all the labels of the issue.
onLabelChangeSetPricing_NoFilter(ctx, w) ==
    LET hasPermission == labelAccessPermissionsCheck(ctx, w)
        permitted == hasPermission.w
    IN  IF ~ctx.isIssueLabelEvent THEN Log(w, "Not an issue event")
        ELSE IF ~ctx.hasLabels THEN Throw(w, "No labels to calculate price")
        ELSE IF ctx.isParent THEN handleParentIssue(ctx, w)
        ELSE IF ~hasPermission.returns
        THEN IF ~ctx.publicSetLabel
             THEN Throw(permitted, "No public access control to set labels")
             ELSE Throw(permitted, "No permission to set labels")
        ELSE IF isPayloadToSetPrice(ctx)
        THEN LET logged ==
                     Log(permitted,
                         "This is setting the price label directly so skipping the rest of the action.")
                 sortedPriceLabels == sortLabelsByValue(w.issue)
             IN  IF sortedPriceLabels = <<>> THEN logged
                 ELSE RemoveEach(ctx, logged, Tail(sortedPriceLabels))
        ELSE setPriceLabel(ctx, permitted, w.issue)

\* onLabelChangeSetPricing
onLabelChangeSetPricing(ctx, w) ==
    LET hasPermission == labelAccessPermissionsCheck(ctx, w)
        permitted == hasPermission.w
    IN  IF ~ctx.isIssueLabelEvent THEN Log(w, "Not an issue event")
        ELSE IF ~ctx.hasLabels THEN Throw(w, "No labels to calculate price")
        ELSE IF ctx.isParent THEN handleParentIssue(ctx, w)
        ELSE IF ~hasPermission.returns
        THEN IF ~ctx.publicSetLabel
             THEN Throw(permitted, "No public access control to set labels")
             ELSE Throw(permitted, "No permission to set labels")
        ELSE IF isPayloadToSetPrice(ctx)
        THEN LET logged ==
                     Log(permitted,
                         "This is setting the price label directly so skipping the rest of the action.")
                 priceLabels ==
                     SelectSeqBy(w.issue, {n \in Range(w.issue) : Includes(n, "Price: ")})
                 sortedPriceLabels == sortLabelsByValue(priceLabels)
             IN  IF sortedPriceLabels = <<>> THEN logged
                 ELSE RemoveEach(ctx, logged, Tail(sortedPriceLabels))
        ELSE setPriceLabel(ctx, permitted, w.issue)

(***************************************************************************)
(* Bounds and inputs.                                                      *)
(***************************************************************************)
\* Longest event log an issue starts with.
MaxEvents == 2
\* Invocations in a row in the repeated-reconciliation specification.
MaxRuns == 2

\* Orders in which the store lists an issue's labels.
LabelOrders ==
    { <<"Time: 1 Hour", "Time: 5 Hours", "Priority: 1 (Normal)", "Priority: TBD",
        "Price: 1 USD", "Price: 5 USD", "Price: 1 USDC">>,
      <<"Time: 5 Hours", "Time: 1 Hour", "Priority: TBD", "Priority: 1 (Normal)",
        "Price: 5 USD", "Price: 1 USDC", "Price: 1 USD">> }

\* Events an issue's log may hold before the first invocation.
InitEvents ==
    { Event("labeled", "Price: 1 USD", "User"),
      Event("labeled", "Price: 1 USD", "Bot"),
      Event("unlabeled", "Price: 1 USD", "User"),
      Event("labeled", "Time: 1 Hour", "User") }

SeqsUpTo(S, n) == UNION {[1..k -> S] : k \in 0..n}

\* The labels that trigger an invocation (payload.label; Null: none given).
Triggers == {Null, "Time: 1 Hour", "Price: 5 USD"}

\* The price labels a repository may have besides those on the issue.
RepoPrices == {{}, {"Price: 1 USDC"}, PriceLabels}

NoFailure == {}

\* The contexts of an invocation.  A field the handler does not read on the
\* path taken is held at its default.
Contexts ==
    { c \in [isIssueLabelEvent : BOOLEAN, hasIssue : BOOLEAN, hasLabels : BOOLEAN,
             isParent : BOOLEAN, hasPermission : BOOLEAN, publicSetLabel : BOOLEAN,
             label : Triggers, failing : {NoFailure}] :
        /\ c.isIssueLabelEvent => c.hasIssue
        /\ ~c.isIssueLabelEvent => c.hasLabels /\ c.label = Null
        /\ ~c.hasLabels => ~c.isParent /\ c.label = Null
        /\ (~c.isIssueLabelEvent \/ ~c.hasLabels) => c.hasPermission
        /\ c.hasPermission => c.publicSetLabel
        /\ ~c.isIssueLabelEvent => ~c.isParent }

NoPayload == [isIssueLabelEvent |-> FALSE, hasIssue |-> FALSE,
              hasLabels |-> FALSE, isParent |-> FALSE,
              hasPermission |-> FALSE, publicSetLabel |-> FALSE, label |-> Null,
              failing |-> NoFailure]

NoResult == [error |-> Null, log |-> <<>>]

NoStore == [labels |-> <<>>, repo |-> {}, events |-> <<>>]

\* The invocations that may be under way at a time.
Invocations == {1, 2}

NoInvocation ==
    [active |-> FALSE, ctx |-> NoPayload, issue |-> <<>>, start |-> NoStore,
     answers |-> <<>>]

(***************************************************************************)
(* The state machine.                                                      *)
(***************************************************************************)
Init ==
    /\ issueLabels \in {SelectSeqBy(o, S) : o \in LabelOrders, S \in SUBSET Labels}
    /\ repoLabels \in {ConfigTime \cup ConfigPriority \cup Range(issueLabels) \cup X :
                          X \in RepoPrices}
    /\ issueEvents \in SeqsUpTo(InitEvents, MaxEvents)
    /\ payload = NoPayload
    /\ before = NoStore
    /\ calls = <<>>
    /\ result = NoResult
    /\ runs = 0
    /\ pending = <<>>
    /\ inv = [p \in Invocations |-> NoInvocation]

\* The store as it is.
Store == [labels |-> issueLabels, repo |-> repoLabels, events |-> issueEvents]

\* The world of an invocation that runs from its start to its end with no
\* other between its calls.
World ==
    [issue |-> issueLabels, labels |-> issueLabels, repo |-> repoLabels,
     events |-> issueEvents, calls |-> <<>>, log |-> <<>>, error |-> Null,
     answers |-> <<>>, met |-> 0, whole |-> TRUE, upto |-> 0, blocked |-> FALSE]

\* The world of one step of an invocation whose payload lists the labels
\* `labels` and whose awaited calls have got the answers `answers`: the store
\* as it is now, and one more awaited call.
Resumption(labels, answers) ==
    [World EXCEPT !.issue = labels, !.answers = answers,
                  !.whole = FALSE, !.upto = Len(answers) + 1]

\* The world a step of the invocation leaves.
Step(ctx, labels, answers) == onLabelChangeSetPricing(ctx, Resumption(labels, answers))

\* The world the call of the handler leaves: the code runs up to its first
\* awaited call, whose answer is still to come.
Entry(ctx, labels) ==
    onLabelChangeSetPricing(ctx, [World EXCEPT !.issue = labels, !.whole = FALSE])

\* The invocation p, started in the store `start`, has run on to the world
\* w: it waits at an awaited call, or it has ended and what it did is on
\* record as the last invocation.
Settle(p, ctx, labels, start, w) ==
    /\ issueLabels' = w.labels
    /\ repoLabels' = w.repo
    /\ issueEvents' = w.events
    /\ IF w.blocked
       THEN /\ inv' = [inv EXCEPT ![p] = [active |-> TRUE, ctx |-> ctx,
                                         issue |-> labels, start |-> start,
                                         answers |-> w.answers]]
            /\ UNCHANGED <<payload, before, calls, result, runs>>
       ELSE /\ inv' = [inv EXCEPT ![p] = NoInvocation]
            /\ payload' = ctx
            /\ before' = start
            /\ calls' = w.calls
            /\ result' = [error |-> w.error, log |-> w.log]
            /\ runs' = runs + 1

\* The handler is called as the invocation p: it runs to its first awaited
\* call, where it waits, or to its end when it meets none.
Enter(p, ctx, labels) == Settle(p, ctx, labels, Store, Entry(ctx, labels))

\* One step of the invocation p: the awaited call it is at is made on the
\* store and the handler runs on to its next awaited call or to its end.
Advance(p, ctx, labels, start, answers) ==
    Settle(p, ctx, labels, start, Step(ctx, labels, answers))

\* No invocation is under way.
Idle == \A p \in Invocations : ~inv[p].active

\* The host hands an event with context ctx, whose payload lists the labels
\* `labels`, to the handler when no invocation is under way.
InvokeWith(ctx, labels) ==
    /\ Idle
    /\ Enter(1, ctx, labels)

\* An invocation for an event whose payload lists the labels the issue has.
Invoke(ctx) == InvokeWith(ctx, issueLabels)

\* The invocation p under way makes its next step.
Resume(p) ==
    /\ inv[p].active
    /\ Advance(p, inv[p].ctx, inv[p].issue, inv[p].start, inv[p].answers)

\* A label-change event arrives and is handled.
OnLabelChange ==
    /\ runs = 0
    /\ \E ctx \in Contexts : Invoke(ctx)
    /\ UNCHANGED pending

\* An invocation under way goes on.
Continue ==
    /\ \E p \in Invocations : Resume(p)
    /\ UNCHANGED pending

Next == OnLabelChange \/ Continue

Spec == Init /\ [][Next]_vars

\* Reconciliation (setPriceLabel) is invoked again on what the last
\* invocation left: an issue-label event of a permitted actor on a non-parent
\* issue whose triggering label is no price label.
Reconcile ==
    /\ runs < MaxRuns
    /\ \E ctx \in Contexts :
           /\ ctx.isIssueLabelEvent /\ ctx.hasLabels /\ ~ctx.isParent
           /\ ctx.hasPermission
           /\ ~isPayloadToSetPrice(ctx)
           /\ Invoke(ctx)
    /\ UNCHANGED pending

NextRepeat == Reconcile \/ Continue

SpecRepeat == Init /\ [][NextRepeat]_vars

\* The calls that may fail during an invocation.
Failures ==
    {<<"listEvents", Null>>}
        \cup {<<"createLabel", PriceName(v)>> : v \in {1, 5}}
        \cup {<<"removeLabel", n>> : n \in PriceLabels}

\* The contexts of an invocation, by a permitted actor on a non-parent issue,
\* during which one call fails: a removeLabel when a price label triggers
\* the invocation, a listEvents or a createLabel when another label does.
FailingContexts ==
    { c \in { [isIssueLabelEvent |-> TRUE, hasIssue |-> TRUE,
               hasLabels |-> TRUE, isParent |-> FALSE,
               hasPermission |-> TRUE, publicSetLabel |-> TRUE, label |-> l,
               failing |-> {f}] : l \in Triggers, f \in Failures } :
        isPayloadToSetPrice(c) <=> (\E n \in PriceLabels : <<"removeLabel", n>> \in c.failing) }

\* A label-change event arrives and is handled while one call fails.
OnLabelChangeWithFailure ==
    /\ runs = 0
    /\ \E ctx \in FailingContexts : Invoke(ctx)
    /\ UNCHANGED pending

NextFailing == OnLabelChangeWithFailure \/ Continue

SpecFailing == Init /\ [][NextFailing]_vars

\* Most invocations one external event leads to when the label changes of
\* the handler come back to it as events.
MaxDeliveries == 6

RECURSIVE Deliveries(_, _)
\* The label-change events that the store sends for the events logged on an
\* issue with the given labels: each carries the label that changed and the
\* issue's labels right after the change.
Deliveries(labels, events) ==
    IF events = <<>> THEN <<>>
    ELSE LET e == Head(events)
             after == IF e.event = "unlabeled"
                      THEN SelectSeqBy(labels, Range(labels) \ {e.label})
                      ELSE Append(labels, e.label)
         IN  <<[label |-> e.label, labels |-> after]>> \o Deliveries(after, Tail(events))

\* The events a step that leaves the world w has logged.
Logged(w) == SubSeq(w.events, Len(issueEvents) + 1, Len(w.events))

\* The context of an event on a non-parent issue, by a permitted actor, with
\* the changed label l.
Delivery(l) ==
    [isIssueLabelEvent |-> TRUE, hasIssue |-> TRUE,
     hasLabels |-> TRUE, isParent |-> FALSE,
     hasPermission |-> TRUE, publicSetLabel |-> TRUE, label |-> l,
     failing |-> NoFailure]

\* An external label-change event arrives and its handling starts.
DeliverExternal ==
    /\ runs = 0
    /\ \E l \in Triggers : InvokeWith(Delivery(l), issueLabels)
    /\ UNCHANGED pending

\* The oldest queued event of the handler's own making is handed to the
\* handler.
DeliverOwn ==
    /\ runs > 0
    /\ runs < MaxDeliveries
    /\ pending # <<>>
    /\ InvokeWith(Delivery(Head(pending).label), Head(pending).labels)
    /\ pending' = Tail(pending)

\* The invocation under way goes on; the label changes the step makes are
\* queued as events.
ContinueDelivery ==
    \E p \in Invocations :
        /\ Resume(p)
        /\ pending' = pending
                         \o Deliveries(issueLabels,
                                       Logged(Step(inv[p].ctx, inv[p].issue, inv[p].answers)))

NextLoop == DeliverExternal \/ DeliverOwn \/ ContinueDelivery

SpecLoop == Init /\ [][NextLoop]_vars /\ WF_vars(NextLoop)

\* The payloads an event may carry when the issue's labels have changed
\* since: the labels of the issue, or those without a time or priority label
\* that was put on after the event.
Payloads ==
    {issueLabels}
        \cup {SelectSeqBy(issueLabels, Range(issueLabels) \ {l}) :
                 l \in Range(issueLabels) \cap (ConfigTime \cup ConfigPriority)}

\* An event is handed to the handler whether or not an invocation is under
\* way: nothing in the handler makes one invocation wait for another.
Arrive(p) ==
    /\ p = runs + Cardinality({q \in Invocations : inv[q].active}) + 1
    /\ \E l \in Triggers, labels \in Payloads :
           Enter(p, Delivery(l), labels)
    /\ UNCHANGED pending

NextOverlap == (\E p \in Invocations : Arrive(p)) \/ Continue

\* Two events on an issue with no history, in a repository that has every
\* label.
InitOverlap == Init /\ issueEvents = <<>> /\ repoLabels = Labels

SpecOverlap == InitOverlap /\ [][NextOverlap]_vars

(***************************************************************************)
(* Vocabulary of the properties.                                           *)
(***************************************************************************)
\* The labels of a list whose name contains "Price: ".
PriceLabelsOn(labels) == {n \in Range(labels) : Includes(n, "Price: ")}

\* The target price of a label list: what setPrice gives for the minimum
\* recognized time and priority labels; Null when none is derivable.
TargetOf(labels) ==
    LET recognized == getRecognizedLabels(labels)
        min == getMinLabels(recognized)
    IN  IF recognized.time = <<>> \/ recognized.priority = <<>> THEN Null
        ELSE setPrice(min.time, min.priority)

\* A label of the list matches the target the way handleTargetPriceLabel looks for it.
MatchesTarget(labels, target) ==
    \E n \in Range(labels) : Includes(n, "Price") /\ Includes(n, target)

\* The actor type of the most recent labeled event whose label name contains
\* "Price"; Null when there is no such event.
LastPriceActor(events) ==
    LET idx == {i \in 1..Len(events) :
                   /\ events[i].event = "labeled"
                   /\ events[i].label # Null
                   /\ Includes(events[i].label, "Price")}
    IN  IF idx = {} THEN Null
        ELSE events[CHOOSE i \in idx : \A j \in idx : j <= i].actor

\* The names of the operations called, in order.
Ops(cs) == [i \in 1..Len(cs) |-> cs[i].op]

\* The last invocation handled an issue-label event of a non-parent issue,
\* and none is under way.
HandledLeafIssue ==
    /\ runs > 0 /\ Idle
    /\ payload.isIssueLabelEvent /\ payload.hasLabels /\ ~payload.isParent

\* The last invocation reached setPriceLabel.
Reconciled ==
    HandledLeafIssue /\ payload.hasPermission /\ ~isPayloadToSetPrice(payload)

\* The last invocation took the direct-price branch.
DirectPrice ==
    HandledLeafIssue /\ payload.hasPermission /\ isPayloadToSetPrice(payload)

(***************************************************************************)
(* Properties.                                                             *)
(***************************************************************************)
\* C1: after an invocation on a non-parent issue that completes without
\* error, the issue carries at most one label whose name contains "Price: ",
\* whichever branch was taken.
C1_AtMostOnePriceLabel ==
    (HandledLeafIssue /\ result.error = Null)
        => Cardinality(PriceLabelsOn(issueLabels)) <= 1

\* C2: when the issue has a recognized time label and a recognized priority
\* label and the triggering label is no price label, exactly one price label
\* is on the issue after setPriceLabel.  Stated for the case where setPrice
\* gives a target for the minimum labels.
C2_ExactlyOnePriceLabel ==
    ( /\ Reconciled
      /\ getRecognizedLabels(before.labels).time # <<>>
      /\ getRecognizedLabels(before.labels).priority # <<>>
      /\ TargetOf(before.labels) # Null )
        => Cardinality(PriceLabelsOn(issueLabels)) = 1

\* C3: a second reconciliation in a row, reading what the first left, issues
\* no mutation call at all.  Stated for the case the sentence names, the
\* labels matching a derivable target after the first run.
C3_SecondRunNoCalls ==
    (runs >= 2 /\ Idle /\ TargetOf(before.labels) # Null) => calls = <<>>

\* C3 (amended): a reconciliation that follows another with no change in
\* between leaves the issue's labels as they are and issues no createLabel
\* and no removeLabel; it issues no call at all only when a target is
\* derivable and the most recent price labeled event is by a User or there is
\* none; with no target it issues clearAllPriceLabelsOnIssue again, and when
\* the most recent price labeled event is not by a User (the automation's own
\* labeling) it issues clearAllPriceLabelsOnIssue then addLabelToIssue(target)
\* again.
C3_SecondRunRepeatsClearAndAdd ==
    (runs >= 2 /\ Idle) =>
        /\ issueLabels = before.labels
        /\ calls = IF TargetOf(before.labels) = Null
                   THEN <<Call("clearAllPriceLabelsOnIssue", Null)>>
                   ELSE IF LastPriceActor(before.events) \in {"User", Null}
                   THEN <<>>
                   ELSE <<Call("clearAllPriceLabelsOnIssue", Null),
                          Call("addLabelToIssue", TargetOf(before.labels))>>

\* C3 witness: the second reconciliation has cleared and added the target
\* again, after the first one's own labeling.
C3_Witness ==
    /\ runs = 2 /\ Idle
    /\ LastPriceActor(before.events) = BotActor
    /\ Ops(calls) = <<"clearAllPriceLabelsOnIssue", "addLabelToIssue">>
    /\ issueLabels = before.labels
    /\ PriceLabelsOn(issueLabels) = {"Price: 5 USD"}

\* C4: with a target derivable, every reconciliation after the first leaves
\* the issue's label set as the first left it, and that set holds a single
\* price label, the target.
C4_ConvergesToTarget ==
    (runs >= 2 /\ Idle /\ TargetOf(before.labels) # Null) =>
        /\ Range(issueLabels) = Range(before.labels)
        /\ PriceLabelsOn(issueLabels) = {TargetOf(before.labels)}

\* C5: when a target is derivable, a label matching it is on the issue and
\* the most recent labeled event whose label name contains "Price" is by a
\* "User", the invocation issues no mutation call and the issue's labels are
\* unchanged.
C5_HumanOverride ==
    ( /\ Reconciled
      /\ TargetOf(before.labels) # Null
      /\ MatchesTarget(before.labels, TargetOf(before.labels))
      /\ LastPriceActor(before.events) = "User" )
        => /\ calls = <<>>
           /\ issueLabels = before.labels
           /\ result.error = Null

\* C5 witness: the invocation skipped although an automation labeling
\* precedes the User's in the log.
C5_Witness ==
    /\ Reconciled
    /\ TargetOf(before.labels) = "Price: 1 USD"
    /\ "Price: 1 USD" \in Range(before.labels)
    /\ Len(before.events) = 2
    /\ before.events[1] = Event("labeled", "Price: 1 USD", "Bot")
    /\ before.events[2] = Event("labeled", "Price: 1 USD", "User")
    /\ calls = <<>>
    /\ result.log = <<"Skipping... already exists">>

\* C6: when the issue has no recognized time label or no recognized priority
\* label, or setPrice gives no value for the minimum labels, the invocation
\* calls clearAllPriceLabelsOnIssue and nothing else, the issue ends with no
\* price label, and the invocation returns normally.
C6_UnpriceableClears ==
    (Reconciled /\ TargetOf(before.labels) = Null)
        => /\ calls = <<Call("clearAllPriceLabelsOnIssue", Null)>>
           /\ PriceLabelsOn(issueLabels) = {}
           /\ result.error = Null

\* C6 witness: setPrice gave no value for recognized labels and the price
\* labels the issue had are gone.
C6_Witness ==
    /\ Reconciled
    /\ getRecognizedLabels(before.labels).time # <<>>
    /\ getRecognizedLabels(before.labels).priority # <<>>
    /\ TargetOf(before.labels) = Null
    /\ Cardinality(PriceLabelsOn(before.labels)) = 2
    /\ PriceLabelsOn(issueLabels) = {}
    /\ result.log = <<"Skipping action...">>

\* C7: when the triggering label's name contains "Price: " (permitted actor,
\* non-parent issue), the invocation calls nothing but removeLabel, once for
\* every price label on the issue except one of smallest value, and returns;
\* the labels that are no price labels stay.
C7_DirectPriceDeduplicates ==
    DirectPrice =>
        LET prices == PriceLabelsOn(before.labels)
            removed == {calls[i].name : i \in 1..Len(calls)}
        IN  /\ \A i \in 1..Len(calls) : calls[i].op = "removeLabel"
            /\ Len(calls) = Cardinality(removed)
            /\ IF prices = {} THEN removed = {}
               ELSE \E kept \in prices :
                       /\ \A n \in prices :
                              calculateLabelValue(kept) <= calculateLabelValue(n)
                       /\ removed = prices \ {kept}
                       /\ PriceLabelsOn(issueLabels) = {kept}
            /\ Range(issueLabels) \ prices = Range(before.labels) \ prices
            /\ result.error = Null

\* C7 witness: three price labels were on the issue and two removals were issued.
C7_Witness ==
    /\ DirectPrice
    /\ PriceLabelsOn(before.labels) = PriceLabels
    /\ Len(calls) = 2
    /\ Cardinality(PriceLabelsOn(issueLabels)) = 1

\* C8: whenever a target is derivable and no label on the issue is named
\* exactly the target, the invocation clears the price labels and adds the
\* target, which ends as the only price label.
C8_AddWhenAbsent ==
    ( /\ Reconciled
      /\ TargetOf(before.labels) # Null
      /\ TargetOf(before.labels) \notin Range(before.labels) )
        => /\ \E i, j \in 1..Len(calls) :
                  /\ i < j
                  /\ calls[i] = Call("clearAllPriceLabelsOnIssue", Null)
                  /\ calls[j] = Call("addLabelToIssue", TargetOf(before.labels))
           /\ PriceLabelsOn(issueLabels) = {TargetOf(before.labels)}

\* C9: on the path where the target is not found on the issue, createLabel is
\* called if and only if the repository has no label named exactly the
\* target; when called it is called once, before the clear and the add.
C9_CreateIffAbsentInRepo ==
    ( /\ Reconciled
      /\ TargetOf(before.labels) # Null
      /\ ~MatchesTarget(before.labels, TargetOf(before.labels)) )
        => LET target == TargetOf(before.labels)
               creates == {i \in 1..Len(calls) : calls[i].op = "createLabel"}
           IN  /\ (creates # {}) <=> (target \notin before.repo)
               /\ creates \subseteq {1}
               /\ \A i \in creates : calls[i] = Call("createLabel", target)

\* C10: when a target is derivable, a label matching it is on the issue and
\* the most recent price labeled event is by an actor that is no "User", the
\* invocation calls clearAllPriceLabelsOnIssue and then addLabelToIssue with
\* the target, and the target ends as the only price label.
C10_ReplaceAfterAutomation ==
    ( /\ Reconciled
      /\ TargetOf(before.labels) # Null
      /\ MatchesTarget(before.labels, TargetOf(before.labels))
      /\ LastPriceActor(before.events) \notin {"User", Null} )
        => /\ calls = <<Call("clearAllPriceLabelsOnIssue", Null),
                        Call("addLabelToIssue", TargetOf(before.labels))>>
           /\ PriceLabelsOn(issueLabels) = {TargetOf(before.labels)}
           /\ result.error = Null

\* C10 witness: both "Price: 1 USD" and "Price: 5 USD" were on the issue, the
\* automation's labeling was the most recent one although a User's unlabeling
\* follows it, and only the target is left.
C10_Witness ==
    /\ Reconciled
    /\ TargetOf(before.labels) = "Price: 1 USD"
    /\ PriceLabelsOn(before.labels) = {"Price: 1 USD", "Price: 5 USD"}
    /\ before.events = <<Event("labeled", "Price: 1 USD", "Bot"),
                         Event("unlabeled", "Price: 1 USD", "User")>>
    /\ Ops(calls) = <<"clearAllPriceLabelsOnIssue", "addLabelToIssue">>
    /\ PriceLabelsOn(issueLabels) = {"Price: 1 USD"}

\* C11: when a target is derivable, a label matching it is on the issue and
\* the event log holds no labeled event whose label name contains "Price",
\* the invocation clears the price labels and then adds the target.
C11_ReplaceWithNoHistory ==
    ( /\ Reconciled
      /\ TargetOf(before.labels) # Null
      /\ MatchesTarget(before.labels, TargetOf(before.labels))
      /\ LastPriceActor(before.events) = Null )
        => calls = <<Call("clearAllPriceLabelsOnIssue", Null),
                     Call("addLabelToIssue", TargetOf(before.labels))>>

\* C12: when listing the issue's events fails while a label matching the
\* target is on the issue, the failure is logged and nothing is raised, the
\* history counts as empty, and the invocation returns with no call issued
\* and the labels unchanged.
C12_EventFetchFailureSkips ==
    ( /\ Reconciled
      /\ <<"listEvents", Null>> \in payload.failing
      /\ TargetOf(before.labels) # Null
      /\ MatchesTarget(before.labels, TargetOf(before.labels)) )
        => /\ result.error = Null
           /\ result.log = <<"Failed to fetch lists of events",
                            "No price labeled events found">>
           /\ calls = <<>>
           /\ issueLabels = before.labels

\* C12 witness: the fetch failed on an issue whose most recent price labeled
\* event is the automation's, and nothing was called.
C12_Witness ==
    /\ Reconciled
    /\ <<"listEvents", Null>> \in payload.failing
    /\ TargetOf(before.labels) = "Price: 1 USD"
    /\ PriceLabelsOn(before.labels) = {"Price: 1 USD", "Price: 5 USD"}
    /\ LastPriceActor(before.events) = BotActor
    /\ calls = <<>>
    /\ issueLabels = before.labels

\* C13: when the permission check denies the actor of an issue-label event,
\* the invocation ends with an error and has issued or delegated no label
\* mutation, on the parent branch as on the others.
C13_PermissionGateFirst ==
    ( /\ runs > 0 /\ Idle
      /\ payload.isIssueLabelEvent /\ payload.hasLabels /\ ~payload.hasPermission )
        => (result.error # Null /\ calls = <<>>)

\* The price labels the direct-price branch removes from a label list: all
\* but the first of the ones containing "Price: ", sorted by value.
Superfluous(labels) ==
    LET sorted == sortLabelsByValue(SelectSeqBy(labels, PriceLabelsOn(labels)))
    IN  IF sorted = <<>> THEN <<>> ELSE Tail(sorted)

\* C14: on the direct-price branch a removeLabel call is issued for every
\* superfluous price label even when one of the calls fails, and the
\* invocation ends without error.
C14_BestEffortCleanup ==
    DirectPrice
        => /\ result.error = Null
           /\ calls = [i \in 1..Len(Superfluous(before.labels)) |->
                          Call("removeLabel", Superfluous(before.labels)[i])]

\* The invocation that started in the store b has a target that neither a
\* label on the issue nor a label of the repository matches, and the
\* createLabel call for it fails.
CreateFails(b) ==
    /\ Reconciled
    /\ TargetOf(b.labels) # Null
    /\ ~MatchesTarget(b.labels, TargetOf(b.labels))
    /\ {n \in b.repo : Includes(n, TargetOf(b.labels))} = {}
    /\ <<"createLabel", TargetOf(b.labels)>> \in payload.failing

\* C15: when the createLabel call for the target fails, it is the only call
\* of the invocation: no clear and no add follow, the invocation ends in
\* error and the issue's labels are as they were.
C15_CreateFailureBlocksAdd ==
    CreateFails(before)
        => /\ calls = <<Call("createLabel", TargetOf(before.labels))>>
           /\ result.error # Null
           /\ issueLabels = before.labels

\* C15 witness: the createLabel call failed on an issue that carries price
\* labels other than the target.
C15_Witness ==
    /\ CreateFails(before)
    /\ TargetOf(before.labels) = "Price: 5 USD"
    /\ PriceLabelsOn(before.labels) = {"Price: 1 USD", "Price: 1 USDC"}
    /\ calls = <<Call("createLabel", "Price: 5 USD")>>
    /\ PriceLabelsOn(issueLabels) = {"Price: 1 USD", "Price: 1 USDC"}

\* C16: in the calls of an invocation, every addLabelToIssue comes right
\* after a clearAllPriceLabelsOnIssue, and there is at most one addLabelToIssue.
C16_ClearBeforeAdd ==
    LET adds == {i \in 1..Len(calls) : calls[i].op = "addLabelToIssue"}
    IN  /\ \A i \in adds : i > 1 /\ calls[i - 1].op = "clearAllPriceLabelsOnIssue"
        /\ Cardinality(adds) <= 1

\* C16 witness: an invocation that created the target, cleared and added.
C16_Witness ==
    /\ Reconciled
    /\ Ops(calls) = <<"createLabel", "clearAllPriceLabelsOnIssue", "addLabelToIssue">>
    /\ PriceLabelsOn(before.labels) # {}

\* The invocation was triggered by "Price: 5 USD" on an issue whose price
\* labels were "Price: 1 USD" and "Price: 5 USD".
FiveSetOverOne ==
    /\ DirectPrice
    /\ payload.label = "Price: 5 USD"
    /\ PriceLabelsOn(before.labels) = {"Price: 1 USD", "Price: 5 USD"}

\* C17: when "Price: 5 USD" triggers the invocation and the issue carries
\* "Price: 1 USD" and "Price: 5 USD", exactly one removeLabel call is issued,
\* for "Price: 1 USD", and nothing else.
C17_RemovesOneDollar ==
    FiveSetOverOne => calls = <<Call("removeLabel", "Price: 1 USD")>>

\* C17: when "Price: 5 USD" triggers the invocation and the issue carries
\* "Price: 1 USD" and "Price: 5 USD", exactly one removeLabel call is issued,
\* for "Price: 5 USD": the smallest price label is the one kept.
C17_RemovesFiveDollars ==
    FiveSetOverOne
        => /\ calls = <<Call("removeLabel", "Price: 5 USD")>>
           /\ PriceLabelsOn(issueLabels) = {"Price: 1 USD"}
           /\ result.error = Null

\* C17 witness: the scenario with "Price: 5 USD" listed before "Price: 1 USD".
C17_Witness ==
    /\ FiveSetOverOne
    /\ SelectSeqBy(before.labels, PriceLabelsOn(before.labels))
           = <<"Price: 5 USD", "Price: 1 USD">>
    /\ calls = <<Call("removeLabel", "Price: 5 USD")>>

\* The labels of a list whose name does not contain "Price", in order.
OtherLabels(labels) ==
    SelectSeqBy(labels, {n \in Range(labels) : ~Includes(n, "Price")})

\* C18: an invocation on a non-parent issue leaves the labels whose name
\* does not contain "Price" as they were and names no such label in a call,
\* whether it ends in error or not.
C18_OtherLabelsUntouched ==
    HandledLeafIssue
        => /\ OtherLabels(issueLabels) = OtherLabels(before.labels)
           /\ \A i \in 1..Len(calls) :
                  calls[i].name # Null => Includes(calls[i].name, "Price")

\* C18 witness: a direct-price invocation that removed a price label and
\* then ended in error, on an issue with time and priority labels.
C18_Witness ==
    /\ DirectPrice
    /\ result.error # Null
    /\ Len(calls) = 2
    /\ Len(OtherLabels(before.labels)) >= 2
    /\ issueLabels # before.labels

\* The operations that put a price on an issue or take all prices off it.
Repricing == {"addLabelToIssue", "createLabel", "clearAllPriceLabelsOnIssue"}

\* The last invocation handled an event of the handler's own making: it took
\* the direct-price branch and issued no add, no create and no clear.
OwnEventsOnlyDeduplicate ==
    (runs > 1 /\ Idle)
        => /\ DirectPrice
           /\ \A i \in 1..Len(calls) : calls[i].op \notin Repricing

\* No event is pending once MaxDeliveries invocations have been made.
QueueDrained == pending # <<>> => runs < MaxDeliveries

\* C19: when the label changes of the handler come back to it as events, one
\* external event leads to at most MaxDeliveries invocations, after which no
\* event is pending, and each invocation for an event of the handler's own
\* making takes the direct-price branch and issues no add, no create and no
\* clear.
C19_NoSelfTriggeringLoop == OwnEventsOnlyDeduplicate /\ QueueDrained

\* C19 witness: the events of a clear and an add were all handled, and none
\* is pending.
C19_Witness ==
    /\ runs >= 5
    /\ pending = <<>>
    /\ DirectPrice
    /\ Len(issueEvents) >= MaxEvents + 4

====
